---- MODULE Spec2Model ----
(***************************************************************************)
(* Model of the Fintech Flow backend (src/backend/server.py): the user     *)
(* registration handler, the PIX transfer handler, the KYC handlers and    *)
(* the virtual card handlers running as concurrent asyncio request         *)
(* handlers over the MongoDB collections users, pix_accounts,              *)
(* pix_transactions, kyc_documents, virtual_cards and card_transactions.   *)
(*                                                                         *)
(* Every `await db...` of a handler is one atomic step of the database;    *)
(* between two awaits of one handler any step of any other handler may     *)
(* run.  Monetary amounts are Python floats in the source; the model draws *)
(* them from a range of integers (whole units, on which float arithmetic   *)
(* is exact), negative and zero included because PIXTransfer.amount is an  *)
(* unvalidated float.                                                      *)
(***************************************************************************)
EXTENDS Integers, Sequences, FiniteSets, TLC

\* ---------------------------------------------------------------- bounds
NumProcs == 2       \* concurrent request handlers
MaxUsers == 2       \* user records ever inserted
MaxTx == 3          \* transaction records ever inserted
MaxAmount == 1      \* amounts range over -MaxAmount..MaxAmount
MaxCancel == 1      \* handlers ever stopped at an await
MaxDocs == 2        \* KYC documents ever inserted
MaxCards == 1       \* virtual cards ever inserted
MaxLimit == 1       \* a card limit is -MaxLimit or MaxLimit
MaxCharges == 2     \* card transactions ever inserted
MaxOver == 1        \* records by which a stored log exceeds the page size
MaxPattern == 2     \* period of the sender/recipient pattern of a stored log
PageSize == 100     \* to_list(100)

Procs == 1..NumProcs
Emails == {"a", "b"}
Amounts == (0 - MaxAmount)..MaxAmount
UserIds == 1..MaxUsers

VARIABLES
    users,              \* db.users: sequence of user documents (id = position)
    pix_accounts,       \* db.pix_accounts: sequence of account documents
    pix_transactions,   \* db.pix_transactions: sequence of transaction documents
    pc,                 \* per handler: the await it is suspended at
    req,                \* per handler: route and request inputs
    loc,                \* per handler: local variables of the running handler
    outcome,            \* per handler: response of the last finished request
    applied,            \* per handler: effects the running transfer has persisted
    net,                \* per handler: balance change it applied, per account owner
    last_mut,           \* per account owner: transaction of the last balance mutation
    cancels,            \* number of handlers stopped at an await so far
    kyc_documents,      \* db.kyc_documents: sequence of KYC documents
    virtual_cards,      \* db.virtual_cards: sequence of card documents
    card_transactions   \* db.card_transactions: sequence of card transactions

\* the collections of the KYC and card routes
cardvars == <<kyc_documents, virtual_cards, card_transactions>>

\* the collections and bookkeeping of the PIX routes
pixvars == <<pix_accounts, pix_transactions, applied, net, last_mut>>

vars == <<users, pix_accounts, pix_transactions, pc, req, loc, outcome,
          applied, net, last_mut, cancels, kyc_documents, virtual_cards,
          card_transactions>>

\* ------------------------------------------------------- database helpers
\* collection.find_one(filter): of the positions S of the documents matching
\* the filter, the first in the collection's order; 0 if none matches
First(S) == IF S = {} THEN 0 ELSE CHOOSE i \in S : \A j \in S : i <= j

\* positions of the account documents with the given user_id / pix_key
ByUserId(accts, uid) == {i \in 1..Len(accts) : accts[i].user_id = uid}
ByPixKey(accts, key) == {i \in 1..Len(accts) : accts[i].pix_key = key}

\* pix_accounts.update_one({"user_id": uid}, {"$inc": {"balance": d}})
IncBalance(accts, uid, d) ==
    LET i == First(ByUserId(accts, uid))
    IN  IF i = 0 THEN accts
        ELSE [accts EXCEPT ![i].balance = @ + d]

\* balance of the account document owned by uid (0 when there is none)
BalanceOf(accts, uid) ==
    LET i == First(ByUserId(accts, uid))
    IN  IF i = 0 THEN 0 ELSE accts[i].balance

NoReq == [route |-> "none", user |-> 0, email |-> "", to_pix_key |-> "", amount |-> 0,
          kyc_id |-> 0, status |-> "", card_id |-> 0, daily_limit |-> 0, monthly_limit |-> 0,
          elapsed |-> "none"]
NoLoc == [sender_key |-> "", sender_balance |-> 0, recipient |-> 0, txid |-> 0, user_id |-> 0,
          listed |-> << >>, qr |-> [pix_key |-> "", amount |-> << >>]]
ZeroNet == [u \in UserIds |-> 0]
Effects == {"record", "debit", "credit"}

Init ==
    /\ users = << >>
    /\ pix_accounts = << >>
    /\ pix_transactions = << >>
    /\ pc = [p \in Procs |-> "idle"]
    /\ req = [p \in Procs |-> NoReq]
    /\ loc = [p \in Procs |-> NoLoc]
    /\ outcome = [p \in Procs |-> "none"]
    /\ applied = [p \in Procs |-> {}]
    /\ net = [p \in Procs |-> ZeroNet]
    /\ last_mut = [u \in UserIds |-> 0]
    /\ cancels = 0
    /\ kyc_documents = << >>
    /\ virtual_cards = << >>
    /\ card_transactions = << >>

\* a handler reaches its return statement or raises HTTPException: no further
\* database call follows, the response `result` is ready to be sent
Finish(p, result) ==
    /\ pc' = [pc EXCEPT ![p] = "done"]
    /\ outcome' = [outcome EXCEPT ![p] = result]

\* a new request enters the free handler slot p; the model follows the system
\* until MaxCancel handlers have stopped and then lets the running ones finish
Accept(p, r) ==
    /\ pc[p] = "idle"
    /\ cancels < MaxCancel
    /\ req' = [req EXCEPT ![p] = r]

\* the response leaves; the handler's frame and its request are gone
Respond(p) ==
    /\ pc[p] = "done"
    /\ pc' = [pc EXCEPT ![p] = "idle"]
    /\ req' = [req EXCEPT ![p] = NoReq]
    /\ loc' = [loc EXCEPT ![p] = NoLoc]
    /\ outcome' = [outcome EXCEPT ![p] = "none"]
    /\ applied' = [applied EXCEPT ![p] = {}]
    /\ net' = [net EXCEPT ![p] = ZeroNet]
    /\ UNCHANGED <<users, pix_accounts, pix_transactions, last_mut, cancels>>
    /\ UNCHANGED cardvars

InFlight(route) == {p \in Procs : pc[p] \notin {"idle", "done"} /\ req[p].route = route}

\* ------------------------------------------------ POST /auth/register
\* register, lines 202-206: find_one({"email": ...}); 400 when it exists
RegisterFindUser(p, email) ==
    /\ Len(users) + Cardinality(InFlight("register")) < MaxUsers
    /\ Accept(p, [NoReq EXCEPT !.route = "register", !.email = email])
    /\ LET i == First({j \in 1..Len(users) : users[j].email = email})
       IN  IF i # 0
           THEN Finish(p, "400_email_registered")
           ELSE /\ pc' = [pc EXCEPT ![p] = "insert_user"]
                /\ UNCHANGED outcome
    /\ UNCHANGED <<users, pix_accounts, pix_transactions, loc, applied, net, last_mut, cancels>>
    /\ UNCHANGED cardvars

\* register, lines 209-219: db.users.insert_one(user_dict)
RegisterInsertUser(p) ==
    /\ pc[p] = "insert_user"
    /\ users' = Append(users, [id |-> Len(users) + 1, email |-> req[p].email,
                                kyc_status |-> "pending"])
    /\ loc' = [loc EXCEPT ![p].user_id = Len(users) + 1]
    /\ pc' = [pc EXCEPT ![p] = "insert_account"]
    /\ UNCHANGED <<pix_accounts, pix_transactions, req, outcome, applied, net, last_mut, cancels>>
    /\ UNCHANGED cardvars

\* register, lines 222-231: db.pix_accounts.insert_one(...), then the token
RegisterInsertAccount(p) ==
    /\ pc[p] = "insert_account"
    /\ pix_accounts' = Append(pix_accounts,
            [user_id |-> loc[p].user_id, pix_key |-> req[p].email, balance |-> 0])
    /\ Finish(p, "ok")
    /\ UNCHANGED <<users, pix_transactions, req, loc, applied, net, last_mut, cancels>>
    /\ UNCHANGED cardvars

\* ------------------------------------------------ POST /pix/transfer
\* get_current_user, lines 171-187: the bearer token names a stored user (a
\* token is issued by login, lines 233-244, as soon as the user document exists)
GetCurrentUser(p, u, key, amt) ==
    /\ u \in 1..Len(users)
    /\ Len(pix_transactions) + Cardinality(InFlight("pix_transfer")) < MaxTx
    /\ Accept(p, [NoReq EXCEPT !.route = "pix_transfer", !.user = users[u].id,
                               !.to_pix_key = key, !.amount = amt])
    /\ pc' = [pc EXCEPT ![p] = "find_sender"]
    /\ UNCHANGED <<users, pix_accounts, pix_transactions, loc, outcome, applied, net, last_mut, cancels>>
    /\ UNCHANGED cardvars

\* pix_transfer, lines 335-345: the PIXTransaction document
Transaction(p) ==
    [id |-> Len(pix_transactions) + 1,
     from_user_id |-> req[p].user,
     to_user_id |-> loc[p].recipient,
     from_pix_key |-> loc[p].sender_key,
     to_pix_key |-> req[p].to_pix_key,
     amount |-> req[p].amount,
     status |-> "completed"]

\* the balance update of one account owner by one handler, with its bookkeeping
Mutate(p, uid, d, effect) ==
    /\ pix_accounts' = IncBalance(pix_accounts, uid, d)
    /\ net' = [net EXCEPT ![p] = [u \in UserIds |->
                  @[u] + BalanceOf(pix_accounts', u) - BalanceOf(pix_accounts, u)]]
    /\ last_mut' = IF ByUserId(pix_accounts, uid) = {} THEN last_mut
                   ELSE [last_mut EXCEPT ![uid] = loc[p].txid]
    /\ applied' = [applied EXCEPT ![p] = @ \cup {effect}]

\* FindSender with a slip: the balance is not compared here, the transfer goes
\* on to the recipient lookup first
FindSenderSkipsBalance(p) ==
    /\ pc[p] = "find_sender"
    /\ LET i == First(ByUserId(pix_accounts, req[p].user))
       IN  IF i = 0
           THEN Finish(p, "404_account") /\ UNCHANGED loc
           ELSE /\ loc' = [loc EXCEPT ![p].sender_key = pix_accounts[i].pix_key,
                                      ![p].sender_balance = pix_accounts[i].balance]
                /\ pc' = [pc EXCEPT ![p] = "find_recipient"]
                /\ UNCHANGED outcome
    /\ UNCHANGED <<users, pix_accounts, pix_transactions, req, applied, net, last_mut, cancels>>
    /\ UNCHANGED cardvars

\* pix_transfer, lines 322-327: sender account lookup and balance check
FindSender(p) ==
    /\ pc[p] = "find_sender"
    /\ LET i == First(ByUserId(pix_accounts, req[p].user))
       IN  IF i = 0
           THEN Finish(p, "404_account") /\ UNCHANGED loc
           ELSE IF pix_accounts[i].balance < req[p].amount
           THEN Finish(p, "400_insufficient_balance") /\ UNCHANGED loc
           ELSE /\ loc' = [loc EXCEPT ![p].sender_key = pix_accounts[i].pix_key,
                                      ![p].sender_balance = pix_accounts[i].balance]
                /\ pc' = [pc EXCEPT ![p] = "find_recipient"]
                /\ UNCHANGED outcome
    /\ UNCHANGED <<users, pix_accounts, pix_transactions, req, applied, net, last_mut, cancels>>
    /\ UNCHANGED cardvars

\* FindRecipient with a slip: the failure path also stores a record of the
\* attempted transfer
FindRecipientRecordsFailure(p) ==
    /\ pc[p] = "find_recipient"
    /\ LET i == First(ByPixKey(pix_accounts, req[p].to_pix_key))
       IN  IF i = 0
           THEN /\ Finish(p, "404_recipient")
                /\ pix_transactions' = Append(pix_transactions,
                        [Transaction(p) EXCEPT !.status = "failed"])
                /\ UNCHANGED loc
           ELSE /\ loc' = [loc EXCEPT ![p].recipient = pix_accounts[i].user_id]
                /\ pc' = [pc EXCEPT ![p] = "insert_tx"]
                /\ UNCHANGED <<outcome, pix_transactions>>
    /\ UNCHANGED <<users, pix_accounts, req, applied, net, last_mut, cancels>>
    /\ UNCHANGED cardvars

\* pix_transfer, lines 330-332: recipient lookup by pix_key
FindRecipient(p) ==
    /\ pc[p] = "find_recipient"
    /\ LET i == First(ByPixKey(pix_accounts, req[p].to_pix_key))
       IN  IF i = 0
           THEN Finish(p, "404_recipient") /\ UNCHANGED loc
           ELSE /\ loc' = [loc EXCEPT ![p].recipient = pix_accounts[i].user_id]
                /\ pc' = [pc EXCEPT ![p] = "insert_tx"]
                /\ UNCHANGED outcome
    /\ UNCHANGED <<users, pix_accounts, pix_transactions, req, applied, net, last_mut, cancels>>
    /\ UNCHANGED cardvars

\* pix_transfer, line 347: db.pix_transactions.insert_one(transaction.dict())
InsertTransaction(p) ==
    /\ pc[p] = "insert_tx"
    /\ pix_transactions' = Append(pix_transactions, Transaction(p))
    /\ loc' = [loc EXCEPT ![p].txid = Len(pix_transactions) + 1]
    /\ applied' = [applied EXCEPT ![p] = @ \cup {"record"}]
    /\ pc' = [pc EXCEPT ![p] = "debit"]
    /\ UNCHANGED <<users, pix_accounts, req, outcome, net, last_mut, cancels>>
    /\ UNCHANGED cardvars

\* DebitSender with a slip: the new balance is computed from the balance read
\* at line 322 and written back with $set
DebitSenderFromSnapshot(p) ==
    /\ pc[p] = "debit"
    /\ Mutate(p, req[p].user,
              (loc[p].sender_balance - req[p].amount) - BalanceOf(pix_accounts, req[p].user),
              "debit")
    /\ pc' = [pc EXCEPT ![p] = "credit"]
    /\ UNCHANGED <<users, pix_transactions, req, loc, outcome, cancels>>
    /\ UNCHANGED cardvars

\* pix_transfer, lines 350-353: $inc of the sender's balance by -amount
DebitSender(p) ==
    /\ pc[p] = "debit"
    /\ Mutate(p, req[p].user, 0 - req[p].amount, "debit")
    /\ pc' = [pc EXCEPT ![p] = "credit"]
    /\ UNCHANGED <<users, pix_transactions, req, loc, outcome, cancels>>
    /\ UNCHANGED cardvars

\* CreditRecipient with a slip: an amount below zero is credited as zero
CreditRecipientClamped(p) ==
    /\ pc[p] = "credit"
    /\ Mutate(p, loc[p].recipient, IF req[p].amount < 0 THEN 0 ELSE req[p].amount, "credit")
    /\ Finish(p, "ok")
    /\ UNCHANGED <<users, pix_transactions, req, loc, cancels>>
    /\ UNCHANGED cardvars

\* CreditRecipient with a slip: the transfer's record is rewritten once the
\* recipient has been credited
CreditRecipientSettlesRecord(p) ==
    /\ pc[p] = "credit"
    /\ Mutate(p, loc[p].recipient, req[p].amount, "credit")
    /\ pix_transactions' = [pix_transactions EXCEPT ![loc[p].txid].status = "settled"]
    /\ Finish(p, "ok")
    /\ UNCHANGED <<users, req, loc, cancels>>
    /\ UNCHANGED cardvars

\* pix_transfer, lines 355-360: $inc of the recipient's balance, then the reply
CreditRecipient(p) ==
    /\ pc[p] = "credit"
    /\ Mutate(p, loc[p].recipient, req[p].amount, "credit")
    /\ Finish(p, "ok")
    /\ UNCHANGED <<users, pix_transactions, req, loc, cancels>>
    /\ UNCHANGED cardvars

\* a handler stops at the await it is suspended at (the awaited database call
\* raises, the request task is cancelled, the server stops): nothing more of
\* the handler runs
Cancel(p) ==
    /\ pc[p] \notin {"idle", "done"}
    /\ cancels < MaxCancel
    /\ cancels' = cancels + 1
    /\ Finish(p, "cancelled")
    /\ UNCHANGED <<users, pix_accounts, pix_transactions, req, loc, applied, net, last_mut>>
    /\ UNCHANGED cardvars

\* a request arrives: the first await of its handler runs
Arrive ==
    \/ \E p \in Procs, email \in Emails : RegisterFindUser(p, email)
    \/ \E p \in Procs, u \in UserIds, key \in Emails, amt \in Amounts :
            GetCurrentUser(p, u, key, amt)

\* a suspended handler resumes at its await, or its response leaves
Resume ==
    \/ \E p \in Procs : RegisterInsertUser(p)
    \/ \E p \in Procs : RegisterInsertAccount(p)
    \/ \E p \in Procs : FindSender(p)
    \/ \E p \in Procs : FindRecipient(p)
    \/ \E p \in Procs : InsertTransaction(p)
    \/ \E p \in Procs : DebitSender(p)
    \/ \E p \in Procs : CreditRecipient(p)
    \/ \E p \in Procs : Respond(p)

Next == Arrive \/ Resume

\* every handler runs from await to await until it returns or raises
Spec == Init /\ [][Next]_vars

\* the same handlers when a handler may also stop at an await
NextCancel == Next \/ \E p \in Procs : Cancel(p)

SpecCancel == Init /\ [][NextCancel]_vars

\* ============================================== KYC and virtual card routes
Limits == {0 - MaxLimit, MaxLimit}
ChargeAmounts == 1..MaxAmount
KycIds == 1..(MaxDocs + 1)
CardIds == 1..(MaxCards + 1)
ReviewStatuses == {"approved", "rejected", "other"}
Periods == {"none", "day", "month"}

\* update_one({"id": uid}, {"$set": {"kyc_status": st}}) on db.users
SetKycStatus(us, uid, st) ==
    [i \in 1..Len(us) |-> IF us[i].id = uid THEN [us[i] EXCEPT !.kyc_status = st] ELSE us[i]]

\* positions of the KYC documents of user uid, and of the document with id kid
KycByUser(uid) == {i \in 1..Len(kyc_documents) : kyc_documents[i].user_id = uid}
KycById(kid) == {i \in 1..Len(kyc_documents) : kyc_documents[i].id = kid}

\* positions matching the filter {"id": cid, "user_id": uid} on db.virtual_cards
CardMatch(cid, uid) ==
    {i \in 1..Len(virtual_cards) :
        virtual_cards[i].id = cid /\ virtual_cards[i].user_id = uid}

\* get_current_user, lines 171-187, for a route of the KYC or card group: the
\* stored user document of the token's subject is read; request r enters slot p
CurrentUser(p, u, r) ==
    /\ u \in 1..Len(users)
    /\ Accept(p, [r EXCEPT !.user = users[u].id])
    /\ UNCHANGED loc

\* ------------------------------------------------ POST /kyc/submit
\* submit_kyc, line 252: the dependency get_current_user
SubmitKyc(p, u) ==
    /\ Len(kyc_documents) + Cardinality(InFlight("submit_kyc")) < MaxDocs
    /\ CurrentUser(p, u, [NoReq EXCEPT !.route = "submit_kyc"])
    /\ pc' = [pc EXCEPT ![p] = "find_kyc"]
    /\ UNCHANGED <<users, outcome, cancels>>
    /\ UNCHANGED pixvars
    /\ UNCHANGED cardvars

\* submit_kyc, lines 254-256: find_one({"user_id": ...}) returns the user's
\* first document; 400 when there is one whose status is not rejected
SubmitKycFind(p) ==
    /\ pc[p] = "find_kyc"
    /\ LET i == First(KycByUser(req[p].user))
       IN  IF i # 0 /\ kyc_documents[i].status # "rejected"
           THEN Finish(p, "400_kyc_submitted")
           ELSE /\ pc' = [pc EXCEPT ![p] = "insert_kyc"]
                /\ UNCHANGED outcome
    /\ UNCHANGED <<users, req, loc, cancels>>
    /\ UNCHANGED pixvars
    /\ UNCHANGED cardvars

\* submit_kyc, lines 259-268: db.kyc_documents.insert_one, status analyzing
SubmitKycInsert(p) ==
    /\ pc[p] = "insert_kyc"
    /\ kyc_documents' = Append(kyc_documents,
            [id |-> Len(kyc_documents) + 1, user_id |-> req[p].user,
             status |-> "analyzing"])
    /\ pc' = [pc EXCEPT ![p] = "update_user_kyc"]
    /\ UNCHANGED <<users, req, loc, outcome, cancels, virtual_cards, card_transactions>>
    /\ UNCHANGED pixvars

\* submit_kyc, lines 271-276: the user's kyc_status becomes in_review
SubmitKycUpdateUser(p) ==
    /\ pc[p] = "update_user_kyc"
    /\ users' = SetKycStatus(users, req[p].user, "in_review")
    /\ Finish(p, "ok")
    /\ UNCHANGED <<req, loc, cancels>>
    /\ UNCHANGED pixvars
    /\ UNCHANGED cardvars

\* ------------------------------------------------ PUT /admin/kyc/{kyc_id}/review
\* review_kyc, lines 461-467: get_current_user (any stored user may review,
\* line 462), then the status check
ReviewKyc(p, kid, status) ==
    /\ users # << >>
    /\ Accept(p, [NoReq EXCEPT !.route = "review_kyc", !.kyc_id = kid, !.status = status])
    /\ UNCHANGED loc
    /\ IF status \notin {"approved", "rejected"}
       THEN Finish(p, "400_invalid_status")
       ELSE /\ pc' = [pc EXCEPT ![p] = "update_kyc"]
            /\ UNCHANGED outcome
    /\ UNCHANGED <<users, cancels>>
    /\ UNCHANGED pixvars
    /\ UNCHANGED cardvars

\* ReviewKycUpdate with a slip: the update is an upsert, so an unknown id
\* stores a new document before the 404
ReviewKycUpsert(p) ==
    /\ pc[p] = "update_kyc"
    /\ LET i == First(KycById(req[p].kyc_id))
       IN  IF i = 0
           THEN /\ Finish(p, "404_kyc")
                /\ kyc_documents' = Append(kyc_documents,
                        [id |-> req[p].kyc_id, user_id |-> 0, status |-> req[p].status])
           ELSE /\ kyc_documents' = [kyc_documents EXCEPT ![i].status = req[p].status]
                /\ pc' = [pc EXCEPT ![p] = "find_reviewed"]
                /\ UNCHANGED outcome
    /\ UNCHANGED <<users, req, loc, cancels, virtual_cards, card_transactions>>
    /\ UNCHANGED pixvars

\* review_kyc, lines 470-481: update_one({"id": kyc_id}, {"$set": {"status": ...}});
\* 404 when no document matched
ReviewKycUpdate(p) ==
    /\ pc[p] = "update_kyc"
    /\ LET i == First(KycById(req[p].kyc_id))
       IN  IF i = 0
           THEN Finish(p, "404_kyc") /\ UNCHANGED kyc_documents
           ELSE /\ kyc_documents' = [kyc_documents EXCEPT ![i].status = req[p].status]
                /\ pc' = [pc EXCEPT ![p] = "find_reviewed"]
                /\ UNCHANGED outcome
    /\ UNCHANGED <<users, req, loc, cancels, virtual_cards, card_transactions>>
    /\ UNCHANGED pixvars

\* review_kyc, line 484: find_one({"id": kyc_id}) for the document's user_id
ReviewKycFind(p) ==
    /\ pc[p] = "find_reviewed"
    /\ LET i == First(KycById(req[p].kyc_id))
       IN  loc' = [loc EXCEPT ![p].user_id = IF i = 0 THEN 0 ELSE kyc_documents[i].user_id]
    /\ pc' = [pc EXCEPT ![p] = "set_user_kyc"]
    /\ UNCHANGED <<users, req, outcome, cancels>>
    /\ UNCHANGED pixvars
    /\ UNCHANGED cardvars

\* review_kyc, lines 485-491: the user's kyc_status becomes the review's status
ReviewKycUpdateUser(p) ==
    /\ pc[p] = "set_user_kyc"
    /\ users' = IF loc[p].user_id = 0 THEN users
                ELSE SetKycStatus(users, loc[p].user_id, req[p].status)
    /\ Finish(p, "ok")
    /\ UNCHANGED <<req, loc, cancels>>
    /\ UNCHANGED pixvars
    /\ UNCHANGED cardvars

\* ------------------------------------------------ POST /cards/create
\* VirtualCard, lines 123-136, as built at lines 379-384
Card(p) ==
    [id |-> Len(virtual_cards) + 1,
     user_id |-> req[p].user,
     status |-> "active",
     daily_limit |-> req[p].daily_limit,
     monthly_limit |-> req[p].monthly_limit,
     daily_spent |-> 0,
     monthly_spent |-> 0,
     blocked_at |-> FALSE]

\* CreateCard with a slip: only a rejected KYC keeps the user from a card
CreateCardUnlessRejected(p, u, dl, ml) ==
    /\ Len(virtual_cards) + Cardinality(InFlight("create_card")) < MaxCards
    /\ CurrentUser(p, u, [NoReq EXCEPT !.route = "create_card", !.daily_limit = dl,
                                       !.monthly_limit = ml])
    /\ IF users[u].kyc_status = "rejected"
       THEN Finish(p, "400_kyc_required")
       ELSE /\ pc' = [pc EXCEPT ![p] = "insert_card"]
            /\ UNCHANGED outcome
    /\ UNCHANGED <<users, cancels>>
    /\ UNCHANGED pixvars
    /\ UNCHANGED cardvars

\* create_card, lines 375-377: get_current_user, then the check of the
\* kyc_status of the user document it returned
CreateCard(p, u, dl, ml) ==
    /\ Len(virtual_cards) + Cardinality(InFlight("create_card")) < MaxCards
    /\ CurrentUser(p, u, [NoReq EXCEPT !.route = "create_card", !.daily_limit = dl,
                                       !.monthly_limit = ml])
    /\ IF users[u].kyc_status # "approved"
       THEN Finish(p, "400_kyc_required")
       ELSE /\ pc' = [pc EXCEPT ![p] = "insert_card"]
            /\ UNCHANGED outcome
    /\ UNCHANGED <<users, cancels>>
    /\ UNCHANGED pixvars
    /\ UNCHANGED cardvars

\* create_card, lines 379-387: db.virtual_cards.insert_one(card.dict())
CreateCardInsert(p) ==
    /\ pc[p] = "insert_card"
    /\ virtual_cards' = Append(virtual_cards, Card(p))
    /\ req' = [req EXCEPT ![p].card_id = Len(virtual_cards) + 1]
    /\ Finish(p, "ok")
    /\ UNCHANGED <<users, loc, cancels, kyc_documents, card_transactions>>
    /\ UNCHANGED pixvars

\* ------------------------------------------------ PUT and GET /cards/{card_id}/...
CardRoutes == {"block_card", "unblock_card", "update_card_limits", "get_card_transactions"}

\* lines 395, 407, 419, 431: the dependency get_current_user of a card route
CardRequest(p, u, route, cid, dl, ml) ==
    /\ route \in CardRoutes
    /\ CurrentUser(p, u, [NoReq EXCEPT !.route = route, !.card_id = cid,
                                       !.daily_limit = dl, !.monthly_limit = ml])
    /\ pc' = [pc EXCEPT ![p] = route]
    /\ UNCHANGED <<users, outcome, cancels>>
    /\ UNCHANGED pixvars
    /\ UNCHANGED cardvars

\* UpdateCard with a slip: the filter names the card id only
UpdateCardById(p, set) ==
    /\ LET i == First({j \in 1..Len(virtual_cards) : virtual_cards[j].id = req[p].card_id})
       IN  IF i = 0
           THEN Finish(p, "404_card") /\ UNCHANGED virtual_cards
           ELSE /\ virtual_cards' = [virtual_cards EXCEPT ![i] =
                        [f \in DOMAIN @ |-> IF f \in DOMAIN set THEN set[f] ELSE @[f]]]
                /\ Finish(p, "ok")
    /\ UNCHANGED <<users, req, loc, cancels, kyc_documents, card_transactions>>
    /\ UNCHANGED pixvars

\* update_one({"id": card_id, "user_id": ...}, {"$set": set}) on
\* db.virtual_cards with the 404 on matched_count == 0 (lines 396-404,
\* 408-416, 420-428)
UpdateCard(p, set) ==
    /\ LET i == First(CardMatch(req[p].card_id, req[p].user))
       IN  IF i = 0
           THEN Finish(p, "404_card") /\ UNCHANGED virtual_cards
           ELSE /\ virtual_cards' = [virtual_cards EXCEPT ![i] =
                        [f \in DOMAIN @ |-> IF f \in DOMAIN set THEN set[f] ELSE @[f]]]
                /\ Finish(p, "ok")
    /\ UNCHANGED <<users, req, loc, cancels, kyc_documents, card_transactions>>
    /\ UNCHANGED pixvars

\* BlockCard with a slip: the card is cancelled instead of blocked
BlockCardCancels(p) ==
    /\ pc[p] = "block_card"
    /\ UpdateCard(p, [status |-> "cancelled", blocked_at |-> TRUE])

\* block_card, lines 396-404
BlockCard(p) ==
    /\ pc[p] = "block_card"
    /\ UpdateCard(p, [status |-> "blocked", blocked_at |-> TRUE])

\* UnblockCard with a slip: the block stamp is left in place
UnblockCardKeepsStamp(p) ==
    /\ pc[p] = "unblock_card"
    /\ UpdateCard(p, [status |-> "active"])

\* unblock_card, lines 408-416
UnblockCard(p) ==
    /\ pc[p] = "unblock_card"
    /\ UpdateCard(p, [status |-> "active", blocked_at |-> FALSE])

\* update_card_limits, lines 420-428
UpdateCardLimits(p) ==
    /\ pc[p] = "update_card_limits"
    /\ UpdateCard(p, [daily_limit |-> req[p].daily_limit,
                      monthly_limit |-> req[p].monthly_limit])

\* get_card_transactions, lines 433-435: find_one with the ownership filter
FindCard(p) ==
    /\ pc[p] = "get_card_transactions"
    /\ IF CardMatch(req[p].card_id, req[p].user) = {}
       THEN Finish(p, "404_card")
       ELSE /\ pc' = [pc EXCEPT ![p] = "find_card_transactions"]
            /\ UNCHANGED outcome
    /\ UNCHANGED <<users, req, loc, cancels>>
    /\ UNCHANGED pixvars
    /\ UNCHANGED cardvars

\* the card transactions of card cid, newest first
RECURSIVE TransactionsOf(_, _)
TransactionsOf(cid, n) ==
    IF n = 0 THEN << >>
    ELSE IF card_transactions[n].card_id = cid
         THEN <<card_transactions[n]>> \o TransactionsOf(cid, n - 1)
         ELSE TransactionsOf(cid, n - 1)

\* get_card_transactions, lines 437-438: find({"card_id": ...}) sorted by
\* created_at descending
FindCardTransactions(p) ==
    /\ pc[p] = "find_card_transactions"
    /\ loc' = [loc EXCEPT ![p].listed = TransactionsOf(req[p].card_id, Len(card_transactions))]
    /\ Finish(p, "ok")
    /\ UNCHANGED <<users, req, cancels>>
    /\ UNCHANGED pixvars
    /\ UNCHANGED cardvars

\* ------------------------------------------------ charge (internal capability)
\* resetIfElapsed(card): the daily counter restarts when a calendar day has
\* begun since the last reset, both counters when a calendar month has
ResetIfElapsed(card, elapsed) ==
    [card EXCEPT !.daily_spent = IF elapsed \in {"day", "month"} THEN 0 ELSE @,
                 !.monthly_spent = IF elapsed = "month" THEN 0 ELSE @]

\* the charge evaluation on a card whose period counters are current
ChargeAccepted(card, amount) ==
    /\ card.status = "active"
    /\ card.daily_spent + amount <= card.daily_limit
    /\ card.monthly_spent + amount <= card.monthly_limit

\* CardTransaction, lines 138-146, for an accepted charge
CardTransaction(cid, amount) ==
    [id |-> Len(card_transactions) + 1, card_id |-> cid, amount |-> amount,
     status |-> "completed"]

\* Charge with a slip: the record of an accepted charge is inserted, the
\* monthly counter is left as it was
ChargeSkipsMonthly(p, cid, amount, elapsed) ==
    /\ cid \in 1..Len(virtual_cards)
    /\ Len(card_transactions) < MaxCharges
    /\ Accept(p, [NoReq EXCEPT !.route = "charge", !.card_id = cid,
                               !.amount = amount, !.elapsed = elapsed])
    /\ LET card == ResetIfElapsed(virtual_cards[cid], elapsed)
       IN  IF ChargeAccepted(card, amount)
           THEN /\ virtual_cards' = [virtual_cards EXCEPT ![cid] =
                        [card EXCEPT !.daily_spent = @ + amount]]
                /\ card_transactions' = Append(card_transactions,
                                               CardTransaction(cid, amount))
                /\ Finish(p, "ok")
           ELSE /\ virtual_cards' = [virtual_cards EXCEPT ![cid] = card]
                /\ UNCHANGED card_transactions
                /\ Finish(p, "failed_precondition")
    /\ UNCHANGED <<users, loc, cancels, kyc_documents>>
    /\ UNCHANGED pixvars

\* charge(cardID, amount, merchant): resetIfElapsed, the evaluation and, when
\* accepted, both counter increments and the record as one atomic unit
Charge(p, cid, amount, elapsed) ==
    /\ cid \in 1..Len(virtual_cards)
    /\ Len(card_transactions) < MaxCharges
    /\ Accept(p, [NoReq EXCEPT !.route = "charge", !.card_id = cid,
                               !.amount = amount, !.elapsed = elapsed])
    /\ LET card == ResetIfElapsed(virtual_cards[cid], elapsed)
       IN  IF ChargeAccepted(card, amount)
           THEN /\ virtual_cards' = [virtual_cards EXCEPT ![cid] =
                        [card EXCEPT !.daily_spent = @ + amount,
                                     !.monthly_spent = @ + amount]]
                /\ card_transactions' = Append(card_transactions,
                                               CardTransaction(cid, amount))
                /\ Finish(p, "ok")
           ELSE /\ virtual_cards' = [virtual_cards EXCEPT ![cid] = card]
                /\ UNCHANGED card_transactions
                /\ Finish(p, "failed_precondition")
    /\ UNCHANGED <<users, loc, cancels, kyc_documents>>
    /\ UNCHANGED pixvars

\* ------------------------------------------------ the KYC system
ArriveKyc ==
    \/ \E p \in Procs, email \in Emails : RegisterFindUser(p, email)
    \/ \E p \in Procs, u \in UserIds : SubmitKyc(p, u)
    \/ \E p \in Procs, kid \in KycIds, status \in ReviewStatuses :
            ReviewKyc(p, kid, status)
    \/ \E p \in Procs, u \in UserIds : CreateCard(p, u, MaxLimit, MaxLimit)

ResumeKyc ==
    \/ \E p \in Procs : RegisterInsertUser(p)
    \/ \E p \in Procs : RegisterInsertAccount(p)
    \/ \E p \in Procs : SubmitKycFind(p)
    \/ \E p \in Procs : SubmitKycInsert(p)
    \/ \E p \in Procs : SubmitKycUpdateUser(p)
    \/ \E p \in Procs : ReviewKycUpdate(p)
    \/ \E p \in Procs : ReviewKycFind(p)
    \/ \E p \in Procs : ReviewKycUpdateUser(p)
    \/ \E p \in Procs : CreateCardInsert(p)
    \/ \E p \in Procs : Respond(p)

NextKyc == ArriveKyc \/ ResumeKyc

\* the registration, KYC and card creation handlers, each running from await
\* to await, from the empty database
SpecKyc == Init /\ [][NextKyc]_vars

\* ------------------------------------------------ the card system
\* a database the KYC system reaches with every handler returned: a and b are
\* registered, a's only KYC document has been approved, b has submitted none
KycDone ==
    /\ users = <<[id |-> 1, email |-> "a", kyc_status |-> "approved"],
                 [id |-> 2, email |-> "b", kyc_status |-> "pending"]>>
    /\ pix_accounts = <<[user_id |-> 1, pix_key |-> "a", balance |-> 0],
                        [user_id |-> 2, pix_key |-> "b", balance |-> 0]>>
    /\ kyc_documents = <<[id |-> 1, user_id |-> 1, status |-> "approved"]>>
    /\ virtual_cards = << >>
    /\ card_transactions = << >>
    /\ \A p \in Procs : pc[p] = "idle"

\* the card system starts from that database
InitCards ==
    /\ pc = [p \in Procs |-> "idle"]
    /\ req = [p \in Procs |-> NoReq]
    /\ loc = [p \in Procs |-> NoLoc]
    /\ outcome = [p \in Procs |-> "none"]
    /\ applied = [p \in Procs |-> {}]
    /\ net = [p \in Procs |-> ZeroNet]
    /\ last_mut = [u \in UserIds |-> 0]
    /\ cancels = 0
    /\ pix_transactions = << >>
    /\ KycDone

ArriveCards ==
    \/ \E p \in Procs, u \in UserIds, dl \in Limits, ml \in Limits :
            CreateCard(p, u, dl, ml)
    \/ \E p \in Procs, u \in UserIds, cid \in CardIds,
          route \in CardRoutes \ {"update_card_limits"} :
            CardRequest(p, u, route, cid, 0, 0)
    \/ \E p \in Procs, u \in UserIds, cid \in CardIds, dl \in Limits, ml \in Limits :
            CardRequest(p, u, "update_card_limits", cid, dl, ml)
    \/ \E p \in Procs, cid \in CardIds, amount \in ChargeAmounts, elapsed \in Periods :
            Charge(p, cid, amount, elapsed)

ResumeCards ==
    \/ \E p \in Procs : CreateCardInsert(p)
    \/ \E p \in Procs : BlockCard(p)
    \/ \E p \in Procs : UnblockCard(p)
    \/ \E p \in Procs : UpdateCardLimits(p)
    \/ \E p \in Procs : FindCard(p)
    \/ \E p \in Procs : FindCardTransactions(p)
    \/ \E p \in Procs : Respond(p)

NextCards == ArriveCards \/ ResumeCards

\* the card handlers and the charge capability, each handler running from
\* await to await, once a user's KYC has been approved
SpecCards == InitCards /\ [][NextCards]_vars

\* ------------------------------------------------ POST /pix/generate-qr
DigitChars == <<"0", "1", "2", "3", "4", "5", "6", "7", "8", "9">>

\* the decimal digits of n >= 0, most significant first
RECURSIVE DigitsOf(_)
DigitsOf(n) ==
    IF n < 10 THEN <<DigitChars[n + 1]>>
    ELSE DigitsOf(n \div 10) \o <<DigitChars[(n % 10) + 1]>>

\* str(qr_data.amount), line 316, of a float holding the whole number n: the
\* sign, the digits and the fraction ".0"
StrOfFloat(n) ==
    (IF n < 0 THEN <<"-">> ELSE << >>)
        \o DigitsOf(IF n < 0 THEN 0 - n ELSE n) \o <<".", "0">>

\* generate_pix_qr, line 299: the dependency get_current_user
GenerateQr(p, u, amt) ==
    /\ CurrentUser(p, u, [NoReq EXCEPT !.route = "generate_qr", !.amount = amt])
    /\ pc' = [pc EXCEPT ![p] = "find_account"]
    /\ UNCHANGED <<users, outcome, cancels>>
    /\ UNCHANGED pixvars
    /\ UNCHANGED cardvars

\* GenerateQrFind with a slip: the payment request is stored as a pending
\* qr_payment transaction
GenerateQrFindStoresRequest(p) ==
    /\ pc[p] = "find_account"
    /\ LET i == First(ByUserId(pix_accounts, req[p].user))
       IN  IF i = 0
           THEN Finish(p, "404_account") /\ UNCHANGED <<loc, pix_transactions>>
           ELSE /\ loc' = [loc EXCEPT ![p].qr = [pix_key |-> pix_accounts[i].pix_key,
                                                 amount |-> StrOfFloat(req[p].amount)]]
                /\ pix_transactions' = Append(pix_transactions,
                        [id |-> Len(pix_transactions) + 1, from_user_id |-> 0,
                         to_user_id |-> req[p].user, from_pix_key |-> "",
                         to_pix_key |-> pix_accounts[i].pix_key,
                         amount |-> req[p].amount, status |-> "pending"])
                /\ Finish(p, "ok")
    /\ UNCHANGED <<users, req, cancels, pix_accounts, applied, net, last_mut>>
    /\ UNCHANGED cardvars

\* generate_pix_qr, lines 300-317: find_one({"user_id": ...}); 404 without an
\* account, else the reply with the account's pix_key and str(amount)
GenerateQrFind(p) ==
    /\ pc[p] = "find_account"
    /\ LET i == First(ByUserId(pix_accounts, req[p].user))
       IN  IF i = 0
           THEN Finish(p, "404_account") /\ UNCHANGED loc
           ELSE /\ loc' = [loc EXCEPT ![p].qr = [pix_key |-> pix_accounts[i].pix_key,
                                                 amount |-> StrOfFloat(req[p].amount)]]
                /\ Finish(p, "ok")
    /\ UNCHANGED <<users, req, cancels>>
    /\ UNCHANGED pixvars
    /\ UNCHANGED cardvars

\* the registration, transfer and QR handlers from the empty database; the
\* transfers here move MaxAmount units either way
ArriveQr ==
    \/ \E p \in Procs, email \in Emails : RegisterFindUser(p, email)
    \/ \E p \in Procs, u \in UserIds, key \in Emails, amt \in {0 - MaxAmount, MaxAmount} :
            GetCurrentUser(p, u, key, amt)
    \/ \E p \in Procs, u \in UserIds, amt \in Amounts : GenerateQr(p, u, amt)

ResumeQr ==
    \/ Resume
    \/ \E p \in Procs : GenerateQrFind(p)

NextQr == ArriveQr \/ ResumeQr

SpecQr == Init /\ [][NextQr]_vars

\* ------------------------------------------------ GET /pix/transactions
\* the filter {"$or": [{"from_user_id": uid}, {"to_user_id": uid}]}, lines 364-368
Involves(t, uid) == t.from_user_id = uid \/ t.to_user_id = uid

\* the records of the log from position i on that pass the filter for uid
RECURSIVE Matching(_, _, _)
Matching(log, uid, i) ==
    IF i > Len(log) THEN << >>
    ELSE (IF Involves(log[i], uid) THEN <<log[i]>> ELSE << >>)
             \o Matching(log, uid, i + 1)

\* a position of s holding the newest record (records are numbered in the
\* order of their creation)
Newest(s) == CHOOSE i \in 1..Len(s) : \A j \in 1..Len(s) : s[j].id <= s[i].id

\* s without its position i
Without(s, i) == SubSeq(s, 1, i - 1) \o SubSeq(s, i + 1, Len(s))

\* sort("created_at", -1), line 369
RECURSIVE SortNewestFirst(_)
SortNewestFirst(s) ==
    IF s = << >> THEN << >>
    ELSE <<s[Newest(s)]>> \o SortNewestFirst(Without(s, Newest(s)))

\* to_list(100), line 369
ToList(s, n) == SubSeq(s, 1, IF Len(s) < n THEN Len(s) ELSE n)

\* get_pix_transactions, line 363: the dependency get_current_user
GetTransactions(p, u) ==
    /\ CurrentUser(p, u, [NoReq EXCEPT !.route = "get_pix_transactions"])
    /\ pc' = [pc EXCEPT ![p] = "find_transactions"]
    /\ UNCHANGED <<users, outcome, cancels>>
    /\ UNCHANGED pixvars
    /\ UNCHANGED cardvars

\* FindTransactions with a slip: the records are returned in stored order
FindTransactionsUnsorted(p) ==
    /\ pc[p] = "find_transactions"
    /\ loc' = [loc EXCEPT ![p].listed =
            ToList(Matching(pix_transactions, req[p].user, 1), PageSize)]
    /\ Finish(p, "ok")
    /\ UNCHANGED <<users, req, cancels>>
    /\ UNCHANGED pixvars
    /\ UNCHANGED cardvars

\* get_pix_transactions, lines 364-371: find, sort, to_list and the reply
FindTransactions(p) ==
    /\ pc[p] = "find_transactions"
    /\ loc' = [loc EXCEPT ![p].listed =
            ToList(SortNewestFirst(Matching(pix_transactions, req[p].user, 1)), PageSize)]
    /\ Finish(p, "ok")
    /\ UNCHANGED <<users, req, cancels>>
    /\ UNCHANGED pixvars
    /\ UNCHANGED cardvars

\* the stored logs the listing is checked on: n completed transfers of amount
\* 0 (which pix_transfer accepts from any balance) whose senders and
\* recipients repeat the pattern pat
ListedUsers == <<[id |-> 1, email |-> "a", kyc_status |-> "pending"],
                 [id |-> 2, email |-> "b", kyc_status |-> "pending"]>>

LogLens == {0} \cup ((PageSize - 1)..(PageSize + MaxOver))

Patterns == [1..MaxPattern -> {1, 2} \X {1, 2}]

StoredLog(pat, n) ==
    [i \in 1..n |->
        LET pair == pat[((i - 1) % MaxPattern) + 1]
        IN  [id |-> i,
             from_user_id |-> pair[1],
             to_user_id |-> pair[2],
             from_pix_key |-> ListedUsers[pair[1]].email,
             to_pix_key |-> ListedUsers[pair[2]].email,
             amount |-> 0,
             status |-> "completed"]]

\* a and b are registered, every handler has returned, the log is a stored log
InitList ==
    /\ users = ListedUsers
    /\ pix_accounts = <<[user_id |-> 1, pix_key |-> "a", balance |-> 0],
                        [user_id |-> 2, pix_key |-> "b", balance |-> 0]>>
    /\ \E pat \in Patterns, n \in LogLens : pix_transactions = StoredLog(pat, n)
    /\ pc = [p \in Procs |-> "idle"]
    /\ req = [p \in Procs |-> NoReq]
    /\ loc = [p \in Procs |-> NoLoc]
    /\ outcome = [p \in Procs |-> "none"]
    /\ applied = [p \in Procs |-> {}]
    /\ net = [p \in Procs |-> ZeroNet]
    /\ last_mut = [u \in UserIds |-> 0]
    /\ cancels = 0
    /\ kyc_documents = << >>
    /\ virtual_cards = << >>
    /\ card_transactions = << >>

ArriveList ==
    \/ \E p \in Procs, u \in UserIds, key \in Emails : GetCurrentUser(p, u, key, 0)
    \/ \E p \in Procs, u \in UserIds : GetTransactions(p, u)

ResumeList ==
    \/ \E p \in Procs : FindSender(p)
    \/ \E p \in Procs : FindRecipient(p)
    \/ \E p \in Procs : InsertTransaction(p)
    \/ \E p \in Procs : DebitSender(p)
    \/ \E p \in Procs : CreditRecipient(p)
    \/ \E p \in Procs : FindTransactions(p)
    \/ \E p \in Procs : Respond(p)

NextList == ArriveList \/ ResumeList

\* the listing and transfers of amount 0 over the stored logs
SpecList == InitList /\ [][NextList]_vars

\* ------------------------------------------------------------ vocabulary
Transfers == {p \in Procs : req[p].route = "pix_transfer"}

Failures == {"404_account", "400_insufficient_balance", "404_recipient"}

\* no transfer handler is between its first and its last await
Quiescent == InFlight("pix_transfer") = {}

\* credits minus debits of the completed records of the log for account owner uid
RECURSIVE LedgerSum(_, _, _)
LedgerSum(log, uid, i) ==
    IF i > Len(log) THEN 0
    ELSE LedgerSum(log, uid, i + 1)
         + (IF log[i].status = "completed" /\ log[i].to_user_id = uid
            THEN log[i].amount ELSE 0)
         - (IF log[i].status = "completed" /\ log[i].from_user_id = uid
            THEN log[i].amount ELSE 0)

\* every account holds its opening balance 0 plus what the log says it received
\* minus what the log says it sent
BalancesMatchLog ==
    \A i \in 1..Len(pix_accounts) :
        pix_accounts[i].balance = LedgerSum(pix_transactions, pix_accounts[i].user_id, 1)

\* the records of the log that carry the id of p's transaction
RecordsOf(p) == {i \in 1..Len(pix_transactions) : pix_transactions[i].id = loc[p].txid}

\* ---------------------------------------------------------------- claims
\* C1: in every reachable state every PIX account has balance >= 0.
C1_BalanceNonNegative ==
    \A i \in 1..Len(pix_accounts) : pix_accounts[i].balance >= 0

\* C2: when two transfers of positive amounts from the same sender run
\* concurrently, only as many are applied as the balance covers: with the debits
\* of both applied, the sender's balance is not negative.
C2_ConcurrentDebitsCovered ==
    \A p, q \in Transfers :
        (/\ p # q
         /\ req[p].user = req[q].user
         /\ req[p].amount > 0 /\ req[q].amount > 0
         /\ "debit" \in applied[p] /\ "debit" \in applied[q])
        => BalanceOf(pix_accounts, req[p].user) >= 0

\* C3: the debit, the credit and the record of a transfer become visible
\* together: in every state a reader can see, the balances agree with the
\* completed records of the log.
C3_TransferEffectsAtomic == BalancesMatchLog

\* C4: a transfer (of a valid, positive amount) that succeeds has changed the
\* sender's balance by -amount and the recipient's balance by +amount, and has
\* created exactly one completed record with that amount.
C4_SuccessfulTransferMovesAmount ==
    \A p \in Transfers :
        (pc[p] = "done" /\ outcome[p] = "ok" /\ req[p].amount > 0)
        => /\ net[p][req[p].user] = 0 - req[p].amount
           /\ net[p][loc[p].recipient] = req[p].amount
           /\ Cardinality(RecordsOf(p)) = 1
           /\ \A i \in RecordsOf(p) :
                /\ pix_transactions[i].status = "completed"
                /\ pix_transactions[i].amount = req[p].amount

\* C5: the step at which a transfer fails (no sender account, insufficient
\* balance, no recipient) changes no balance and no record, nothing was changed
\* by the handler before it, and the failure is 400 insufficient balance exactly
\* when the sender's account exists and holds less than the amount.
C5_FailedTransferChangesNothing ==
    [][\A p \in Transfers :
        (pc[p] # "done" /\ pc'[p] = "done" /\ outcome'[p] \in Failures)
        => /\ pix_accounts' = pix_accounts
           /\ pix_transactions' = pix_transactions
           /\ applied[p] = {} /\ net[p] = ZeroNet /\ loc[p].txid = 0
           /\ (outcome'[p] = "400_insufficient_balance")
                <=> (/\ pc[p] = "find_sender"
                     /\ \E i \in 1..Len(pix_accounts) :
                            pix_accounts[i].user_id = req[p].user
                     /\ BalanceOf(pix_accounts, req[p].user) < req[p].amount)]_vars

\* C5 witness: a transfer has just failed with insufficient balance while the
\* log holds a record and an account holds money
C5_Witness ==
    \E p \in Transfers :
        /\ pc[p] = "done" /\ outcome[p] = "400_insufficient_balance"
        /\ req[p].amount > 0
        /\ Quiescent
        /\ Len(pix_transactions) >= 1
        /\ \E i \in 1..Len(pix_accounts) : pix_accounts[i].balance > 0

\* C6: a transfer with amount <= 0 fails and changes nothing: it never stores a
\* record or a balance update and never answers success.
C6_NonPositiveAmountRejected ==
    \A p \in Transfers :
        req[p].amount <= 0 => (applied[p] = {} /\ outcome[p] # "ok")

C8_RecordOrderIsMutationOrder ==
    [][\A u \in UserIds : last_mut'[u] >= last_mut[u]]_vars

\* C9: a transfer whose handler stopped at an await has persisted all three of
\* its effects or none of them.
C9_StoppedTransferAllOrNothing ==
    \A p \in Transfers :
        outcome[p] = "cancelled" => applied[p] \in {{}, Effects}

\* C10: a transfer whose recipient key is the sender's own pix_key fails,
\* storing no record and no balance update.
C10_SelfTransferRejected ==
    \A p \in Transfers :
        (pc[p] # "find_sender" /\ loc[p].sender_key = req[p].to_pix_key)
        => (applied[p] = {} /\ outcome[p] # "ok")


\* C11: a PIX transaction record, once in the log, is never modified or removed:
\* every step leaves every record of the log as it was, at its position.
C11_RecordsImmutable ==
    [][\A i \in 1..Len(pix_transactions) :
            /\ i <= Len(pix_transactions')
            /\ pix_transactions'[i] = pix_transactions[i]]_vars

\* a transfer has returned and a later record has been inserted after its own
C11_Witness ==
    \E p \in Transfers :
        /\ outcome[p] = "ok"
        /\ loc[p].txid < Len(pix_transactions)

\* -------------------------------------------------- KYC and card vocabulary
\* handler p takes its first step (the request arrives) for the given route
Arrives(p, route) == pc[p] = "idle" /\ req'[p].route = route

\* handler p takes a later step of the given route
Resumes(p, route) == pc[p] \notin {"idle", "done"} /\ req[p].route = route /\ pc'[p] # pc[p]

\* the persisted kyc_status of the user with id uid
KycStatusOf(uid) == users[First({i \in 1..Len(users) : users[i].id = uid})].kyc_status

C13_ApprovedAtInsert ==
    [][Len(virtual_cards') > Len(virtual_cards) =>
            KycStatusOf(virtual_cards'[Len(virtual_cards')].user_id) = "approved"]_vars

\* no stored card has the id and the owner that request p names
NotOwned(p) ==
    \A i \in 1..Len(virtual_cards) :
        virtual_cards[i].id = req[p].card_id => virtual_cards[i].user_id # req[p].user

\* C14: block, unblock, updateLimits and listCardTransactions by a user on a
\* card id that does not exist or belongs to another user fail with 404, leave
\* every card record unchanged and return no card transactions; transactions
\* are only ever returned for a card the caller owns.
C14_OwnershipChecked ==
    [][\A p \in Procs :
        /\ (pc[p] \in CardRoutes /\ pc'[p] # pc[p] /\ NotOwned(p)) =>
              /\ pc'[p] = "done"
              /\ outcome'[p] = "404_card"
              /\ virtual_cards' = virtual_cards
              /\ loc'[p].listed = << >>
        /\ loc'[p].listed # << >> =>
              \A k \in 1..Len(loc'[p].listed) :
                  \E i \in 1..Len(virtual_cards) :
                      /\ virtual_cards[i].id = loc'[p].listed[k].card_id
                      /\ virtual_cards[i].user_id = req'[p].user]_vars

\* the transactions of a charged card have been refused to a user who does not
\* own it, and a block of that card by that user has been refused as well
C14_Witness ==
    \E p, q \in Procs, i \in 1..Len(virtual_cards) :
        /\ req[p].route = "get_card_transactions" /\ outcome[p] = "404_card"
        /\ req[q].route = "block_card" /\ outcome[q] = "404_card"
        /\ virtual_cards[i].id = req[p].card_id /\ virtual_cards[i].id = req[q].card_id
        /\ virtual_cards[i].user_id # req[p].user
        /\ virtual_cards[i].user_id # req[q].user
        /\ virtual_cards[i].status = "active"
        /\ \E k \in 1..Len(card_transactions) : card_transactions[k].card_id = virtual_cards[i].id

\* handler p, suspended at the update of route on card i which it owns, resumes
Updates(p, route, i) ==
    /\ pc[p] = route /\ pc'[p] = "done"
    /\ req[p].card_id = virtual_cards[i].id
    /\ req[p].user = virtual_cards[i].user_id

\* C15: a card is created active; a stored card's status changes only from
\* active to blocked, by a block of its owner, or from blocked to active, by
\* an unblock of its owner; no card is ever cancelled.
C15_CardStatusMachine ==
    [][/\ \A i \in 1..Len(virtual_cards') :
            /\ virtual_cards'[i].status \in {"active", "blocked"}
            /\ i > Len(virtual_cards) => virtual_cards'[i].status = "active"
       /\ \A i \in 1..Len(virtual_cards) :
            virtual_cards'[i].status # virtual_cards[i].status =>
                \/ /\ virtual_cards[i].status = "active"
                   /\ virtual_cards'[i].status = "blocked"
                   /\ \E p \in Procs : Updates(p, "block_card", i)
                \/ /\ virtual_cards[i].status = "blocked"
                   /\ virtual_cards'[i].status = "active"
                   /\ \E p \in Procs : Updates(p, "unblock_card", i)]_vars

\* a card has been blocked and unblocked again by its owner
C15_Witness ==
    \E p, q \in Procs, i \in 1..Len(virtual_cards) :
        /\ req[p].route = "block_card" /\ outcome[p] = "ok"
        /\ req[q].route = "unblock_card" /\ outcome[q] = "ok"
        /\ req[p].card_id = virtual_cards[i].id /\ req[q].card_id = virtual_cards[i].id
        /\ virtual_cards[i].status = "active"

\* C16: in every state and for every card, blocked_at is set exactly when the
\* card's status is blocked.
C16_BlockedAtIffBlocked ==
    \A i \in 1..Len(virtual_cards) :
        virtual_cards[i].blocked_at <=> virtual_cards[i].status = "blocked"

\* a block and an unblock of the same blocked card by its owner are both
\* suspended at their update
C16_Witness ==
    \E p, q \in Procs, i \in 1..Len(virtual_cards) :
        /\ pc[p] = "block_card" /\ pc[q] = "unblock_card"
        /\ CardMatch(req[p].card_id, req[p].user) = {i}
        /\ CardMatch(req[q].card_id, req[q].user) = {i}
        /\ virtual_cards[i].status = "blocked"
        /\ virtual_cards[i].blocked_at

\* C17: in every state every card satisfies daily_spent <= daily_limit and
\* monthly_spent <= monthly_limit, whatever limits createCard and updateLimits
\* were sent.
C17_SpentWithinLimits ==
    \A i \in 1..Len(virtual_cards) :
        /\ virtual_cards[i].daily_spent <= virtual_cards[i].daily_limit
        /\ virtual_cards[i].monthly_spent <= virtual_cards[i].monthly_limit

\* C18: a charge is rejected exactly when the card is not active or a counter
\* plus the amount would exceed its limit; a rejected charge inserts no card
\* transaction and leaves both counters at the values the evaluation read, an
\* accepted charge adds the amount to both counters and inserts one card
\* transaction of that card and amount; no other card changes.
C18_ChargeSemantics ==
    [][\A p \in Procs : Arrives(p, "charge") =>
        LET cid == req'[p].card_id
            amount == req'[p].amount
            before == ResetIfElapsed(virtual_cards[cid], req'[p].elapsed)
            after == virtual_cards'[cid]
            exceeds == \/ before.daily_spent + amount > before.daily_limit
                       \/ before.monthly_spent + amount > before.monthly_limit
        IN  /\ pc'[p] = "done"
            /\ \A i \in 1..Len(virtual_cards) : i # cid => virtual_cards'[i] = virtual_cards[i]
            /\ Len(virtual_cards') = Len(virtual_cards)
            /\ IF virtual_cards[cid].status # "active" \/ exceeds
               THEN /\ outcome'[p] = "failed_precondition"
                    /\ after = before
                    /\ card_transactions' = card_transactions
               ELSE /\ outcome'[p] = "ok"
                    /\ after.daily_spent = before.daily_spent + amount
                    /\ after.monthly_spent = before.monthly_spent + amount
                    /\ after = [before EXCEPT !.daily_spent = after.daily_spent,
                                              !.monthly_spent = after.monthly_spent]
                    /\ Len(card_transactions') = Len(card_transactions) + 1
                    /\ SubSeq(card_transactions', 1, Len(card_transactions)) = card_transactions
                    /\ card_transactions'[Len(card_transactions')].card_id = cid
                    /\ card_transactions'[Len(card_transactions')].amount = amount]_vars

\* on an active card whose daily limit is MaxLimit one charge has been accepted
\* and a further charge in the same period has been rejected, the daily
\* counter standing at the accepted amount
C18_Witness ==
    \E p, q \in Procs, i \in 1..Len(virtual_cards) :
        /\ req[p].route = "charge" /\ outcome[p] = "ok"
        /\ req[q].route = "charge" /\ outcome[q] = "failed_precondition"
        /\ req[p].card_id = i /\ req[q].card_id = i /\ req[q].elapsed = "none"
        /\ virtual_cards[i].status = "active"
        /\ virtual_cards[i].daily_limit = MaxLimit
        /\ virtual_cards[i].daily_spent = req[p].amount
        /\ virtual_cards[i].daily_spent + req[q].amount > virtual_cards[i].daily_limit
        /\ Len(card_transactions) = 1

\* C19: in every state each user has at most one KYC document whose status is
\* not rejected.
C19_OneActiveSubmission ==
    \A u \in UserIds :
        Cardinality({i \in KycByUser(u) : kyc_documents[i].status # "rejected"}) <= 1

\* the collections are as they were
StoreUnchanged ==
    /\ users' = users
    /\ pix_accounts' = pix_accounts
    /\ kyc_documents' = kyc_documents
    /\ virtual_cards' = virtual_cards

\* C20: review_kyc with a status other than approved or rejected fails with
\* 400, review_kyc with an id no KYC document has fails with 404, register
\* with an email a stored user has fails with 400; the failing step writes
\* nothing (no KYC document, no user's kyc_status, no user, no PIX account),
\* and a handler that has failed writes nothing afterwards.
C20_ViolationsBeforeMutation ==
    [][\A p \in Procs :
        /\ (Arrives(p, "review_kyc") /\ req'[p].status \notin {"approved", "rejected"}) =>
              /\ pc'[p] = "done" /\ outcome'[p] = "400_invalid_status"
              /\ StoreUnchanged
        /\ (Resumes(p, "review_kyc") /\ pc[p] = "update_kyc"
                /\ \A i \in 1..Len(kyc_documents) : kyc_documents[i].id # req[p].kyc_id) =>
              /\ pc'[p] = "done" /\ outcome'[p] = "404_kyc"
              /\ StoreUnchanged
        /\ (Arrives(p, "register")
                /\ \E i \in 1..Len(users) : users[i].email = req'[p].email) =>
              /\ pc'[p] = "done" /\ outcome'[p] = "400_email_registered"
              /\ StoreUnchanged
        /\ (pc[p] = "done" /\ pc'[p] # "done") => StoreUnchanged]_vars

\* a review with an invalid status that names a stored, unreviewed document
\* and a registration with a stored user's email have both been refused
C20_Witness ==
    \E p, q \in Procs :
        /\ req[p].route = "review_kyc" /\ outcome[p] = "400_invalid_status"
        /\ \E i \in 1..Len(kyc_documents) :
              kyc_documents[i].id = req[p].kyc_id /\ kyc_documents[i].status = "analyzing"
        /\ req[q].route = "register" /\ outcome[q] = "400_email_registered"
        /\ \E i \in 1..Len(users) : users[i].email = req[q].email

\* C21: in every state each stored user owns exactly one PIX account, and that
\* account carries the user's email as its pix_key: no state holds a user
\* record without its PIX account.
C21_UserOwnsOneAccount ==
    \A i \in 1..Len(users) :
        /\ Cardinality(ByUserId(pix_accounts, users[i].id)) = 1
        /\ \A j \in ByUserId(pix_accounts, users[i].id) :
              pix_accounts[j].pix_key = users[i].email

\* C22: in every state no two users share an email and no two PIX accounts
\* share a pix_key, so a pix_key resolves to at most one account.
C22_EmailAndKeyUnique ==
    /\ \A i, j \in 1..Len(users) : users[i].email = users[j].email => i = j
    /\ \A i, j \in 1..Len(pix_accounts) :
          pix_accounts[i].pix_key = pix_accounts[j].pix_key => i = j

\* the sum of the balances of the accounts from position i on
RECURSIVE TotalBalance(_, _)
TotalBalance(accts, i) ==
    IF i > Len(accts) THEN 0 ELSE accts[i].balance + TotalBalance(accts, i + 1)

C27_TransferErrorPrecedence ==
    [][\A p \in Procs :
        /\ (pc[p] = "find_sender" /\ pc'[p] # pc[p]) =>
              LET mine == {i \in 1..Len(pix_accounts) : pix_accounts[i].user_id = req[p].user}
              IN  IF mine = {}
                  THEN pc'[p] = "done" /\ outcome'[p] = "404_account"
                  ELSE IF \E i \in mine : i = First(mine) /\ pix_accounts[i].balance < req[p].amount
                  THEN pc'[p] = "done" /\ outcome'[p] = "400_insufficient_balance"
                  ELSE pc'[p] = "find_recipient"
        /\ (req[p].route = "pix_transfer" /\ outcome'[p] = "404_recipient"
                /\ outcome[p] # "404_recipient") =>
              /\ pc[p] = "find_recipient"
              /\ loc[p].sender_balance >= req[p].amount
              /\ \A i \in 1..Len(pix_accounts) : pix_accounts[i].pix_key # req[p].to_pix_key]_vars

\* a transfer of more than the sender's balance to a key no account has has
\* failed with 400, and a transfer by a user without an account has failed
\* with 404
C27_Witness ==
    \E p, q \in Procs :
        /\ req[p].route = "pix_transfer" /\ outcome[p] = "400_insufficient_balance"
        /\ \A i \in 1..Len(pix_accounts) : pix_accounts[i].pix_key # req[p].to_pix_key
        /\ req[q].route = "pix_transfer" /\ outcome[q] = "404_account"

\* C26: whenever no review and no submit is in flight, a user's kyc_status
\* agrees with the decision standing on that user's KYC document: for a user
\* with a single document, kyc_status is approved only if the document is
\* approved and rejected only if the document is rejected.
C26_KycStatusFollowsDecision ==
    (InFlight("review_kyc") = {} /\ InFlight("submit_kyc") = {}) =>
        \A i \in 1..Len(users) :
            \A d \in KycByUser(users[i].id) :
                KycByUser(users[i].id) = {d} =>
                    /\ users[i].kyc_status = "approved" => kyc_documents[d].status = "approved"
                    /\ users[i].kyc_status = "rejected" => kyc_documents[d].status = "rejected"

\* every collection is as it was
NothingWritten ==
    /\ StoreUnchanged
    /\ pix_transactions' = pix_transactions
    /\ card_transactions' = card_transactions

\* the whole number a decimal rendering s (sign, digits, ".0") denotes
RECURSIVE DigitsValue(_, _, _)
DigitsValue(s, i, acc) ==
    IF i > Len(s) \/ s[i] = "." THEN acc
    ELSE DigitsValue(s, i + 1,
            acc * 10 + (CHOOSE d \in 0..9 : DigitChars[d + 1] = s[i]))

FloatOfStr(s) ==
    IF s # << >> /\ s[1] = "-" THEN 0 - DigitsValue(s, 2, 0) ELSE DigitsValue(s, 1, 0)

\* C23: no step of generate-qr writes anything (users, accounts and balances,
\* transactions, cards, KYC documents stay as they are), whether it ends in
\* 404 for a caller without an account or succeeds; on success the pix_key
\* returned is the key of the caller's account and the amount returned
\* denotes the requested amount.
C23_GenerateQrReadOnly ==
    [][\A p \in Procs :
        /\ (Arrives(p, "generate_qr") \/ Resumes(p, "generate_qr")) => NothingWritten
        /\ Resumes(p, "generate_qr") =>
              LET mine == {i \in 1..Len(pix_accounts) : pix_accounts[i].user_id = req[p].user}
              IN  /\ pc'[p] = "done"
                  /\ IF mine = {}
                     THEN outcome'[p] = "404_account"
                     ELSE /\ outcome'[p] = "ok"
                          /\ \E i \in mine : loc'[p].qr.pix_key = pix_accounts[i].pix_key
                          /\ FloatOfStr(loc'[p].qr.amount) = req[p].amount]_vars

\* with a transfer in the log and a balance other than 0, one generate-qr for
\* an amount other than 0 has succeeded and one by a user without an account
\* has failed with 404
C23_Witness ==
    \E p, q \in Procs :
        /\ req[p].route = "generate_qr" /\ outcome[p] = "ok" /\ req[p].amount # 0
        /\ req[q].route = "generate_qr" /\ outcome[q] = "404_account"
        /\ pix_transactions # << >>
        /\ \E i \in 1..Len(pix_accounts) : pix_accounts[i].balance # 0

\* C24: the listing writes nothing and returns, newest first, the records of
\* the log in which the caller is sender or recipient and no other record:
\* all of them when there are at most PageSize, else the PageSize newest.
C24_ListingExact ==
    [][\A p \in Procs :
        /\ (Arrives(p, "get_pix_transactions") \/ Resumes(p, "get_pix_transactions")) =>
              NothingWritten
        /\ Resumes(p, "get_pix_transactions") =>
              LET uid == req[p].user
                  listed == loc'[p].listed
                  mine == {i \in 1..Len(pix_transactions) :
                              \/ pix_transactions[i].from_user_id = uid
                              \/ pix_transactions[i].to_user_id = uid}
                  shown == {i \in mine : \E k \in 1..Len(listed) : listed[k] = pix_transactions[i]}
              IN  /\ pc'[p] = "done" /\ outcome'[p] = "ok"
                  /\ \A k \in 1..Len(listed) :
                        \E i \in mine : listed[k] = pix_transactions[i]
                  /\ \A k \in 1..(Len(listed) - 1) : listed[k].id > listed[k + 1].id
                  /\ Len(listed) = (IF Cardinality(mine) < PageSize
                                     THEN Cardinality(mine) ELSE PageSize)
                  /\ \A i \in mine \ shown : \A j \in shown :
                        pix_transactions[i].id < pix_transactions[j].id]_vars

\* over a log of more than PageSize records one caller has been shown the
\* PageSize newest, and another, party to only some of the records, has been
\* shown fewer
C24_Witness ==
    \E p, q \in Procs :
        /\ req[p].route = "get_pix_transactions" /\ outcome[p] = "ok"
        /\ req[q].route = "get_pix_transactions" /\ outcome[q] = "ok"
        /\ Len(pix_transactions) > PageSize
        /\ Len(loc[p].listed) = PageSize
        /\ Len(loc[q].listed) > 0 /\ Len(loc[q].listed) < PageSize

====
